---- MODULE Spec2Model ----
(***************************************************************************)
(* Flight_checker: the price-discovery loop and best-price ledger of       *)
(* weeks.py (Amadeus API variant) and the date sweep with source fallback  *)
(* of claude.py (scraper variant).                                         *)
(*                                                                         *)
(* Dates are day numbers (strftime("%Y-%m-%d") is injective on dates, so a *)
(* formatted date is identified with its day number).  Prices are whole    *)
(* numbers of cents; float('inf') is the number Inf, above every price.    *)
(***************************************************************************)
EXTENDS Integers, Sequences, FiniteSets, TLC

\* ---------------------------------------------------------------- bounds
\* largest price a lookup can report
MaxPrice == 3
\* latest value of date.today() during a run (the clock may pass midnight)
MaxToday == 1
\* SEARCH_WITHIN_DAYS of weeks.py (14 in the source), scaled down
SEARCH_WITHIN_DAYS == 3

\* ------------------------------------------------------------- constants
TRIP_DURATION_DAYS == 14

Prices == 1..MaxPrice
\* float('inf'): compares above every price
Inf == MaxPrice + 1

\* Python's None
None == [none |-> TRUE]

RECURSIVE SetMin(_)
\* min() over a non-empty set of numbers
SetMin(S) ==
    LET x == CHOOSE y \in S : TRUE
    IN  IF S = {x} THEN x
        ELSE LET m == SetMin(S \ {x}) IN IF x < m THEN x ELSE m

\* ------------------------------------------------------ weeks.py: state
VARIABLES
    pc,               \* position of the script: import, start, load,
                      \* search, blocked, save, notify, sleep, exited,
                      \* crashed, interrupted
    exc,              \* where an uncaught exception left main(), "" if none
    today,            \* date.today()
    file,             \* contents of BEST_PRICE_FILE
    all_time_best,    \* main: the record loaded at the start of the cycle
    current_date,     \* find_cheapest_flight: loop variable
    end_date,         \* find_cheapest_flight: parameter
    start_date,       \* find_cheapest_flight: parameter
    cheapest_flight,  \* find_cheapest_flight: running minimum
    current_cheapest, \* main: result of find_cheapest_flight
    lookups,          \* departure dates requested in this cycle, in order
    quotes,           \* quotes obtained in this cycle, in order
    saved,            \* records save_best_price completed with, this cycle
    notified,         \* records send_email_notification was called with
    mailFailed,       \* the SMTP exchange of this cycle raised
    env,              \* what the run finds: config.txt, valid credentials,
                      \* a writable ledger path
    todays,           \* the dates date.today() returned at lines 186, 187
    returns,          \* return dates requested in this cycle, in order
    slept             \* time.sleep(0.3) has run since the latest lookup

weeksVars == <<pc, exc, today, file, all_time_best, current_date, end_date,
               start_date, cheapest_flight, current_cheapest, lookups, quotes,
               saved, notified, mailFailed, env, todays, returns, slept>>

\* ----------------------------------------------------- claude.py: state
VARIABLES
    s_pc,             \* position of the scraper: new, idle, google, kayak,
                      \* reduce, done
    self_best_price,  \* FlightPriceScraper.best_price
    best_flight_info, \* FlightPriceScraper.best_flight_info
    s_today,          \* check_all_dates: today
    dep_days,         \* check_all_dates: outer loop variable
    trip_length,      \* check_all_dates: inner loop variable
    flight_info,      \* check_all_dates: result for the current pair
    best_flight,      \* check_all_dates: running best quote
    best_price,       \* check_all_dates: running best price
    calls,            \* sources consulted for the current pair, in order
    google_result,    \* what search_google_flights returned for the pair
    kayak_result,     \* what search_kayak returned for the pair
    pairs,            \* (departure, return) pairs probed in this sweep
    first_min         \* first quote of least price among those obtained

scraperVars == <<s_pc, self_best_price, best_flight_info, s_today, dep_days,
                 trip_length, flight_info, best_flight, best_price, calls,
                 google_result, kayak_result, pairs, first_min>>

vars == <<weeksVars, scraperVars>>

\* the dict built at weeks.py:116-121
Flight(price, departure_date) ==
    [price          |-> price,
     departure_date |-> departure_date,
     return_date    |-> departure_date + TRIP_DURATION_DAYS,
     link           |-> <<departure_date, departure_date + TRIP_DURATION_DAYS>>]

\* a dump that leaves the link out of the text
json_dump_without_link(d) ==
    [k \in DOMAIN d \ {"link"} |->
        IF k = "price"
        THEN IF d[k] = Inf THEN [token |-> "Infinity", value |-> 0]
                           ELSE [token |-> "number", value |-> d[k]]
        ELSE [token |-> "string", value |-> d[k]]]

\* json.dump of a flight dict: the text, one token per key; a float is
\* written as its shortest repr, float('inf') as the token Infinity
json_dump(d) ==
    [k \in DOMAIN d |->
        IF k = "price"
        THEN IF d[k] = Inf THEN [token |-> "Infinity", value |-> 0]
                           ELSE [token |-> "number", value |-> d[k]]
        ELSE [token |-> "string", value |-> d[k]]]

\* json.load of such a text
json_load(text) ==
    [k \in DOMAIN text |->
        IF text[k].token = "Infinity" THEN Inf ELSE text[k].value]

\* contents of the ledger file
NoFile       == [kind |-> "nofile",  data |-> None]
EmptyFile    == [kind |-> "empty",   data |-> None]
InvalidFile  == [kind |-> "invalid", data |-> None]
NoPriceFile  == [kind |-> "noprice", data |-> None]
RecordFile(r) == [kind |-> "record", data |-> json_dump(r)]

\* a ledger file as a previous run, or the operator, may have left it
InitialFiles ==
    {NoFile, EmptyFile, InvalidFile, NoPriceFile}
        \cup {RecordFile(Flight(p, 1)) : p \in Prices}

\* what one GET of /v2/shopping/flight-offers can produce; requests.get at
\* line 99 is called without a timeout argument, so when the endpoint never
\* answers the call never returns ("noresponse")
Responses ==
    {[kind |-> k, prices |-> {}] :
        k \in {"http400", "empty", "reqexc", "malformed", "noresponse"}}
        \cup {[kind |-> "offers", prices |-> S] : S \in (SUBSET Prices) \ {{}}}

\* what a run can find on the machine it starts on
Environments ==
    [config : BOOLEAN, credentials : BOOLEAN, writable : BOOLEAN]

InitWeeks ==
    /\ pc = "import"
    /\ env \in Environments
    /\ todays = <<>>
    /\ returns = <<>>
    /\ slept = FALSE
    /\ exc = ""
    /\ today = 0
    /\ file \in InitialFiles
    /\ all_time_best = None
    /\ current_date = 0
    /\ end_date = 0
    /\ start_date = 0
    /\ cheapest_flight = None
    /\ current_cheapest = None
    /\ lookups = <<>>
    /\ quotes = <<>>
    /\ saved = <<>>
    /\ notified = <<>>
    /\ mailFailed = FALSE

\* the scraper object before __init__ has read the price history
InitScraper ==
    /\ s_pc = "new"
    /\ self_best_price = Inf
    /\ best_flight_info = None
    /\ s_today = 0
    /\ dep_days = 0
    /\ trip_length = 0
    /\ flight_info = None
    /\ best_flight = None
    /\ best_price = Inf
    /\ calls = <<>>
    /\ google_result = None
    /\ kayak_result = None
    /\ pairs = <<>>
    /\ first_min = None

Init == InitWeeks /\ InitScraper

\* the scraper does not use the ledger file of weeks.py
ScraperInit ==
    /\ InitWeeks
    /\ InitScraper
    /\ file = NoFile
    /\ env = [config |-> TRUE, credentials |-> TRUE, writable |-> TRUE]

\* --------------------------------------------------- weeks.py: actions

\* module level, lines 11-33: read config.txt or exit(1)
load_config ==
    /\ pc = "import"
    /\ pc' = IF env.config THEN "start" ELSE "exited"
    /\ UNCHANGED <<exc, today, file, all_time_best, current_date, end_date,
                   start_date,
                   cheapest_flight, current_cheapest, lookups, quotes, saved,
                   notified, mailFailed, env, todays, returns, slept>>
    /\ UNCHANGED scraperVars

\* main, lines 173-177 with get_amadeus_access_token, lines 57-73: a
\* RequestException (connection error, 401 for missing or rejected
\* credentials) gives None and main returns; a 200 body without
\* "access_token" raises KeyError, which is not caught
get_amadeus_access_token ==
    /\ pc = "start"
    /\ \E r \in {"token", "reqexc", "malformed"} :
        /\ r \in {"token", "malformed"} => env.credentials
        /\ pc' = CASE r = "token" -> "load"
                   [] r = "reqexc" -> "exited"
                   [] r = "malformed" -> "crashed"
        /\ exc' = IF r = "malformed" THEN "token" ELSE exc
    /\ UNCHANGED <<today, file, all_time_best, current_date, end_date,
                   start_date,
                   cheapest_flight, current_cheapest, lookups, quotes, saved,
                   notified, mailFailed, env, todays, returns, slept>>
    /\ UNCHANGED scraperVars

\* load_best_price: the value returned, or "raise" when json.load raises
load_best_price_result(f) ==
    CASE f.kind = "nofile"  -> [price |-> Inf]
      [] f.kind = "record"  -> json_load(f.data)
      [] f.kind = "noprice" -> [other |-> TRUE]
      [] OTHER              -> "raise"

\* main, lines 180-196 up to the call of find_cheapest_flight
load_best_price ==
    /\ pc = "load"
    /\ lookups' = <<>>
    /\ quotes' = <<>>
    /\ saved' = <<>>
    /\ notified' = <<>>
    /\ mailFailed' = FALSE
    /\ returns' = <<>>
    /\ slept' = FALSE
    /\ IF file.kind \in {"empty", "invalid"}
       THEN \* json.load raises JSONDecodeError
            /\ pc' = "crashed"
            /\ exc' = "load"
            /\ todays' = <<>>
            /\ UNCHANGED <<today, all_time_best, current_date, end_date,
                           start_date,
                           cheapest_flight>>
       ELSE IF file.kind = "noprice"
       THEN \* all_time_best['price'] raises KeyError at line 184
            /\ pc' = "crashed"
            /\ exc' = "load"
            /\ todays' = <<>>
            /\ all_time_best' = load_best_price_result(file)
            /\ UNCHANGED <<today, current_date, end_date,
                           start_date, cheapest_flight>>
       ELSE \* lines 186-187 read the clock twice: midnight may pass
            \* between the two calls of date.today()
            \E t \in {today, today + 1} :
                /\ t <= MaxToday
                /\ today' = t
                /\ todays' = <<today, t>>
                /\ all_time_best' = load_best_price_result(file)
                /\ start_date' = today + 1
                /\ current_date' = today + 1
                /\ end_date' = t + SEARCH_WITHIN_DAYS
                /\ cheapest_flight' = None
                /\ pc' = "search"
                /\ exc' = exc
    /\ UNCHANGED <<file, current_cheapest, env>>
    /\ UNCHANGED scraperVars

\* find_cheapest_flight, lines 115-121: keep the strictly cheaper offer
better_flight(cheapest, price, departure_date) ==
    IF cheapest = None \/ price < cheapest.price
    THEN Flight(price, departure_date)
    ELSE cheapest

\* a loop that runs one day past the end of the window
loop_continues_past_end(current, end) == current <= end + 1

\* find_cheapest_flight, line 80: "while current_date <= end_date"
loop_continues(current, end) == current <= end

\* a loop that steps over every other day
next_date_skips_a_day(current) == current + 2

\* find_cheapest_flight, lines 102, 108, 129:
\* "current_date += timedelta(days=1)"
next_date(current) == current + 1

\* find_cheapest_flight: one iteration of the while loop
find_cheapest_flight_step ==
    /\ pc = "search"
    /\ loop_continues(current_date, end_date)
    /\ \E r \in Responses :
        /\ lookups' = Append(lookups, current_date)
        /\ returns' = Append(returns, current_date + TRIP_DURATION_DAYS)
        \* lines 102-103 and 108-109 "continue" before time.sleep(0.3)
        /\ slept' = (r.kind \in {"reqexc", "offers"})
        /\ CASE r.kind \in {"http400", "empty", "reqexc"} ->
                  /\ current_date' = next_date(current_date)
                  /\ UNCHANGED <<pc, exc, cheapest_flight, quotes>>
             [] r.kind = "offers" ->
                  /\ cheapest_flight' =
                        better_flight(cheapest_flight, SetMin(r.prices),
                                      current_date)
                  /\ quotes' = Append(quotes,
                                      Flight(SetMin(r.prices), current_date))
                  /\ current_date' = next_date(current_date)
                  /\ UNCHANGED <<pc, exc>>
             [] r.kind = "malformed" ->
                  \* KeyError / ValueError / AttributeError: not a
                  \* RequestException, so it leaves the function
                  /\ pc' = "crashed"
                  /\ exc' = "search"
                  /\ UNCHANGED <<current_date, cheapest_flight, quotes>>
             [] r.kind = "noresponse" ->
                  \* requests.get(url, headers=..., params=...) waits for
                  \* the answer without a limit
                  /\ pc' = "blocked"
                  /\ UNCHANGED <<exc, current_date, cheapest_flight, quotes>>
    /\ UNCHANGED <<today, file, all_time_best, end_date,
                   start_date, current_cheapest,
                   saved, notified, mailFailed, env, todays>>
    /\ UNCHANGED scraperVars

\* a test that takes any found flight for a record
is_new_record_any(candidate, current) ==
    candidate # None

\* a test that also takes an equal price for a record
is_new_record_nonstrict(candidate, current) ==
    candidate # None /\ candidate.price <= current.price

\* main, line 198: the test that guards the commit
is_new_record(candidate, current) ==
    candidate # None /\ candidate.price < current.price

\* a main that sends the mail before it saves the record
find_cheapest_flight_return_notify_first ==
    /\ pc = "search"
    /\ ~loop_continues(current_date, end_date)
    /\ current_cheapest' = cheapest_flight
    /\ pc' = IF is_new_record(cheapest_flight, all_time_best)
             THEN "notify" ELSE "sleep"
    /\ UNCHANGED <<exc, today, file, all_time_best, current_date, end_date,
                   start_date,
                   cheapest_flight, lookups, quotes, saved, notified,
                   mailFailed, env, todays, returns, slept>>
    /\ UNCHANGED scraperVars

\* a main that starts the next cycle at once when there is no new record
find_cheapest_flight_return_no_wait ==
    /\ pc = "search"
    /\ ~loop_continues(current_date, end_date)
    /\ current_cheapest' = cheapest_flight
    /\ pc' = IF is_new_record(cheapest_flight, all_time_best)
             THEN "save" ELSE "load"
    /\ UNCHANGED <<exc, today, file, all_time_best, current_date, end_date,
                   start_date,
                   cheapest_flight, lookups, quotes, saved, notified,
                   mailFailed, env, todays, returns, slept>>
    /\ UNCHANGED scraperVars

\* find_cheapest_flight returns; main, lines 198-206 choose the branch
find_cheapest_flight_return ==
    /\ pc = "search"
    /\ ~loop_continues(current_date, end_date)
    /\ current_cheapest' = cheapest_flight
    /\ pc' = IF is_new_record(cheapest_flight, all_time_best)
             THEN "save" ELSE "sleep"
    /\ UNCHANGED <<exc, today, file, all_time_best, current_date, end_date,
                   start_date,
                   cheapest_flight, lookups, quotes, saved, notified,
                   mailFailed, env, todays, returns, slept>>
    /\ UNCHANGED scraperVars

\* a save whose failure is caught and ignored by the caller
save_best_price_swallowed ==
    /\ pc = "save"
    /\ \E outcome \in IF env.writable
                      THEN {"ok", "open_fails", "dump_fails"}
                      ELSE {"open_fails"} :
        CASE outcome = "ok" ->
               /\ file' = RecordFile(current_cheapest)
               /\ saved' = Append(saved, current_cheapest)
               /\ pc' = "notify"
               /\ exc' = exc
          [] outcome = "open_fails" ->
               /\ pc' = "notify"
               /\ exc' = "save"
               /\ UNCHANGED <<file, saved>>
          [] outcome = "dump_fails" ->
               /\ file' = EmptyFile
               /\ pc' = "notify"
               /\ exc' = "save"
               /\ saved' = saved
    /\ UNCHANGED <<today, all_time_best, current_date, end_date, start_date,
                   cheapest_flight, current_cheapest, lookups, quotes,
                   notified, mailFailed, env, todays, returns, slept>>
    /\ UNCHANGED scraperVars

\* save_best_price, lines 165-168
save_best_price ==
    /\ pc = "save"
    /\ \E outcome \in IF env.writable
                      THEN {"ok", "open_fails", "dump_fails"}
                      ELSE {"open_fails"} :
        CASE outcome = "ok" ->
               /\ file' = RecordFile(current_cheapest)
               /\ saved' = Append(saved, current_cheapest)
               /\ pc' = "notify"
               /\ exc' = exc
          [] outcome = "open_fails" ->
               \* open(..., "w") raises: the file is untouched
               /\ pc' = "crashed"
               /\ exc' = "save"
               /\ UNCHANGED <<file, saved>>
          [] outcome = "dump_fails" ->
               \* open(..., "w") truncated the file, the write raised
               /\ file' = EmptyFile
               /\ pc' = "crashed"
               /\ exc' = "save"
               /\ saved' = saved
    /\ UNCHANGED <<today, all_time_best, current_date, end_date, start_date,
                   cheapest_flight, current_cheapest, lookups, quotes,
                   notified, mailFailed, env, todays, returns, slept>>
    /\ UNCHANGED scraperVars

\* a notification whose SMTP error is not caught
send_email_notification_raises ==
    /\ pc = "notify"
    /\ notified' = Append(notified, current_cheapest)
    /\ \E smtp_ok \in BOOLEAN :
        /\ mailFailed' = ~smtp_ok
        /\ pc' = IF smtp_ok THEN "sleep" ELSE "crashed"
        /\ exc' = IF smtp_ok THEN exc ELSE "notify"
    /\ UNCHANGED <<today, file, all_time_best, current_date, end_date,
                   start_date,
                   cheapest_flight, current_cheapest, lookups, quotes, saved,
                   env, todays, returns, slept>>
    /\ UNCHANGED scraperVars

\* send_email_notification, lines 133-156: SMTP errors are caught
send_email_notification ==
    /\ pc = "notify"
    /\ notified' = Append(notified, current_cheapest)
    /\ \E smtp_ok \in BOOLEAN : mailFailed' = ~smtp_ok
    /\ pc' = "sleep"
    /\ UNCHANGED <<exc, today, file, all_time_best, current_date, end_date,
                   start_date,
                   cheapest_flight, current_cheapest, lookups, quotes, saved,
                   env, todays, returns, slept>>
    /\ UNCHANGED scraperVars

\* main, lines 208-209: time.sleep(CHECK_INTERVAL_SECONDS), then loop
sleep ==
    /\ pc = "sleep"
    /\ pc' = "load"
    /\ \E t \in {today, today + 1} : t <= MaxToday /\ today' = t
    /\ UNCHANGED <<exc, file, all_time_best, current_date, end_date, start_date,
                   cheapest_flight, current_cheapest, lookups, quotes, saved,
                   notified, mailFailed, env, todays, returns, slept>>
    /\ UNCHANGED scraperVars

Next ==
    \/ load_config
    \/ get_amadeus_access_token
    \/ load_best_price
    \/ find_cheapest_flight_step
    \/ find_cheapest_flight_return
    \/ save_best_price
    \/ send_email_notification
    \/ sleep

Spec == Init /\ [][Next]_vars

\* find_cheapest_flight called on its own, lines 75-131, with any start
\* and end date; no record has been saved yet
SweepInit ==
    /\ InitScraper
    /\ pc = "search"
    /\ start_date \in 1..(MaxToday + SEARCH_WITHIN_DAYS + 1)
    /\ end_date \in 1..(MaxToday + SEARCH_WITHIN_DAYS)
    /\ current_date = start_date
    /\ cheapest_flight = None
    /\ all_time_best = load_best_price_result(NoFile)
    /\ file = NoFile
    /\ env = [config |-> TRUE, credentials |-> TRUE, writable |-> TRUE]
    /\ today = 0
    /\ exc = ""
    /\ current_cheapest = None
    /\ lookups = <<>>
    /\ quotes = <<>>
    /\ saved = <<>>
    /\ notified = <<>>
    /\ mailFailed = FALSE
    /\ todays = <<>>
    /\ returns = <<>>
    /\ slept = FALSE

SweepNext ==
    \/ find_cheapest_flight_step
    \/ find_cheapest_flight_return

\* one call of find_cheapest_flight, run to its end
SweepSpec == SweepInit /\ [][SweepNext]_vars /\ WF_vars(SweepNext)

\* the script as the interpreter runs it: a statement that can run does run
LiveSpec == Init /\ [][Next]_vars /\ WF_vars(Next)

\* SIGINT or SIGTERM reaches the running script: main() has no handler and
\* no except clause for KeyboardInterrupt, so the script ends where it is
shutdown_request ==
    /\ pc \in {"start", "load", "search", "blocked", "save", "notify",
              "sleep"}
    /\ pc' = "interrupted"
    /\ UNCHANGED <<exc, today, file, all_time_best, current_date, end_date,
                   start_date,
                   cheapest_flight, current_cheapest, lookups, quotes, saved,
                   notified, mailFailed, env, todays, returns, slept>>
    /\ UNCHANGED scraperVars

SignalNext ==
    \/ load_config
    \/ get_amadeus_access_token
    \/ load_best_price
    \/ find_cheapest_flight_step
    \/ find_cheapest_flight_return
    \/ save_best_price
    \/ send_email_notification
    \/ sleep
    \/ shutdown_request

\* the script with an operator who may stop it
SignalSpec == Init /\ [][SignalNext]_vars

\* -------------------------------------------------- claude.py: the scraper

\* self.search_days of claude.py (14 in the source), scaled down
search_days == 2
\* range(2, 8) at claude.py:282
TRIP_LENGTH_START == 2
TRIP_LENGTH_STOP == 8

\* the text of a price element: a number, no digit at all, or only commas
PriceTexts ==
    {[kind |-> "number", value |-> p] : p \in Prices}
        \cup {[kind |-> "nodigits", value |-> 0],
              [kind |-> "commas", value |-> 0]}

\* parse_price raises: the match "," becomes float("")
parse_price_raises(price_text) == price_text.kind = "commas"

\* parse_price, for the texts on which it returns
parse_price(price_text) ==
    IF price_text.kind = "number" THEN price_text.value ELSE Inf

\* the dict built at claude.py:183-189
GoogleQuote(price, departure_date, return_date) ==
    [price          |-> price,
     airline        |-> "Unknown",
     duration       |-> "Unknown",
     departure_date |-> departure_date,
     return_date    |-> return_date]

\* the dict built at claude.py:250-257
KayakQuote(price, departure_date, return_date) ==
    [price          |-> price,
     airline        |-> "Multiple",
     duration       |-> "Check website",
     departure_date |-> departure_date,
     return_date    |-> return_date,
     source         |-> "Kayak"]

\* what the browser can show for one search: an exception anywhere, no
\* result within the wait, a block page, or up to five price elements
PageOutcomes ==
    {[kind |-> k, texts |-> {}] :
        k \in {"error", "timeout", "security_check"}}
        \cup {[kind |-> "page", texts |-> T] :
                 T \in {U \in SUBSET PriceTexts : Cardinality(U) <= 5}}

\* search_google_flights: the value returned
search_google_flights_result(o, departure_date, return_date) ==
    IF o.kind # "page" THEN None
    ELSE LET flight_results ==
                 {parse_price(t) : t \in {u \in o.texts : ~parse_price_raises(u)}}
         IN  IF flight_results # {}
             THEN GoogleQuote(SetMin(flight_results), departure_date, return_date)
             ELSE None

\* search_kayak: the value returned
search_kayak_result(o, departure_date, return_date) ==
    IF o.kind # "page" THEN None
    ELSE LET prices ==
                 {x \in {parse_price(t) :
                            t \in {u \in o.texts : ~parse_price_raises(u)}} :
                     x < Inf}
         IN  IF prices # {}
             THEN KayakQuote(SetMin(prices), departure_date, return_date)
             ELSE None

\* price_history.json as __init__ may find it
HistoryFiles ==
    {[kind |-> k, prices |-> {}] : k \in {"nofile", "corrupt", "noprice"}}
        \cup {[kind |-> "list", prices |-> S] : S \in SUBSET Prices}

\* __init__ with load_price_history, claude.py:36-70
load_price_history ==
    /\ s_pc = "new"
    /\ \E h \in HistoryFiles :
        IF h.kind = "list" /\ h.prices # {}
        THEN /\ self_best_price' = SetMin(h.prices)
             /\ best_flight_info' = GoogleQuote(SetMin(h.prices), 1, 3)
        ELSE \* no file, an empty list, or an exception that is caught
             UNCHANGED <<self_best_price, best_flight_info>>
    /\ s_pc' = "idle"
    /\ UNCHANGED <<s_today, dep_days, trip_length, flight_info, best_flight,
                   best_price, calls, google_result, kayak_result, pairs,
                   first_min>>
    /\ UNCHANGED weeksVars

\* check_all_dates, lines 272-278: enter the sweep
check_all_dates_begin ==
    /\ s_pc \in {"idle", "done"}
    /\ \E t \in s_today..MaxToday : s_today' = t
    /\ best_flight' = None
    /\ best_price' = Inf
    /\ dep_days' = 1
    /\ trip_length' = TRIP_LENGTH_START
    /\ flight_info' = None
    /\ calls' = <<>>
    /\ google_result' = None
    /\ kayak_result' = None
    /\ pairs' = <<>>
    /\ first_min' = None
    /\ s_pc' = IF 1 <= search_days THEN "google" ELSE "done"
    /\ UNCHANGED <<self_best_price, best_flight_info>>
    /\ UNCHANGED weeksVars

\* a sweep that asks the secondary source for every pair
needs_fallback_always(info) == TRUE

\* check_all_dates, line 289: "if not flight_info"
needs_fallback(info) == info = None

\* check_all_dates, lines 279-286: the primary lookup of the current pair
search_google_flights ==
    /\ s_pc = "google"
    /\ \E o \in PageOutcomes :
        LET r == search_google_flights_result(o, s_today + dep_days,
                     s_today + dep_days + trip_length)
        IN  /\ flight_info' = r
            /\ google_result' = r
            /\ s_pc' = IF needs_fallback(r) THEN "kayak" ELSE "reduce"
    /\ kayak_result' = None
    /\ calls' = <<"google">>
    /\ pairs' = Append(pairs, <<s_today + dep_days,
                                s_today + dep_days + trip_length>>)
    /\ UNCHANGED <<self_best_price, best_flight_info, s_today, dep_days,
                   trip_length, best_flight, best_price, first_min>>
    /\ UNCHANGED weeksVars

\* check_all_dates, lines 289-290: the secondary lookup of the current pair
search_kayak ==
    /\ s_pc = "kayak"
    /\ \E o \in PageOutcomes :
        LET r == search_kayak_result(o, s_today + dep_days,
                     s_today + dep_days + trip_length)
        IN  /\ flight_info' = r
            /\ kayak_result' = r
    /\ calls' = Append(calls, "kayak")
    /\ s_pc' = "reduce"
    /\ UNCHANGED <<self_best_price, best_flight_info, s_today, dep_days,
                   trip_length, best_flight, best_price, google_result,
                   pairs, first_min>>
    /\ UNCHANGED weeksVars

\* check_all_dates, lines 292-299: reduce, wait, go to the next pair
check_all_dates_reduce ==
    /\ s_pc = "reduce"
    /\ IF flight_info # None /\ flight_info.price < best_price
       THEN /\ best_price' = flight_info.price
            /\ best_flight' = flight_info
       ELSE UNCHANGED <<best_price, best_flight>>
    /\ first_min' =
          IF flight_info # None
             /\ (first_min = None \/ flight_info.price < first_min.price)
          THEN flight_info ELSE first_min
    /\ IF trip_length + 1 < TRIP_LENGTH_STOP
       THEN /\ trip_length' = trip_length + 1
            /\ UNCHANGED dep_days
            /\ s_pc' = "google"
       ELSE IF dep_days + 1 <= search_days
       THEN /\ dep_days' = dep_days + 1
            /\ trip_length' = TRIP_LENGTH_START
            /\ s_pc' = "google"
       ELSE /\ s_pc' = "done"
            /\ UNCHANGED <<dep_days, trip_length>>
    /\ UNCHANGED <<self_best_price, best_flight_info, s_today, flight_info,
                   calls, google_result, kayak_result, pairs>>
    /\ UNCHANGED weeksVars

ScraperNext ==
    \/ load_price_history
    \/ check_all_dates_begin
    \/ search_google_flights
    \/ search_kayak
    \/ check_all_dates_reduce

ScraperSpec == ScraperInit /\ [][ScraperNext]_vars

\* ------------------------------------------------- properties, weeks.py

\* the price a reader finds in a ledger file that holds a record
LedgerPrice(f) == json_load(f.data).price

\* the price of the record the cycle started from (Inf when there was none)
LoadedPrice == all_time_best.price

\* the cycle has run its sweep and taken the branch of lines 198-206
AfterCompare == pc \in {"save", "notify", "sleep"} \/ exc = "save"

\* C1: the price in the ledger file never increases: the file is only ever
\* overwritten with a record whose price is strictly lower than the price
\* of the record loaded at the start of the cycle (and than the price the
\* file held just before).
MonotonicLedger ==
    [][(file' # file /\ file'.kind = "record") =>
          /\ pc = "save"
          /\ LedgerPrice(file') < all_time_best.price
          /\ (file.kind = "record" => LedgerPrice(file') < LedgerPrice(file))]_vars

\* C1 witness: an existing record has been replaced by a cheaper one
LedgerLowered ==
    /\ saved # <<>>
    /\ all_time_best.price < Inf
    /\ file = RecordFile(saved[1])
    /\ saved[1].price < all_time_best.price

\* C2: the new-record test is strict: a cycle whose cheapest quote is equal
\* to or dearer than the loaded record commits nothing, notifies nobody and
\* leaves the file as loaded; a commit or a notification happens only in a
\* cycle whose cheapest quote is strictly cheaper than the loaded record.
StrictNewRecordTest ==
    /\ (/\ pc = "sleep"
        /\ current_cheapest # None
        /\ current_cheapest.price >= LoadedPrice)
           => /\ saved = <<>>
              /\ notified = <<>>
              /\ file = RecordFile(all_time_best)
    /\ (pc \in {"save", "notify"} \/ saved # <<>> \/ notified # <<>>)
           => /\ current_cheapest # None
              /\ current_cheapest.price < LoadedPrice

\* C2 witness: a cycle ended whose cheapest quote equals the record's price
EqualPriceNotRecord ==
    /\ pc = "sleep"
    /\ current_cheapest # None
    /\ current_cheapest.price = LoadedPrice
    /\ saved = <<>>
    /\ notified = <<>>

\* C3: a cycle whose candidate is a new record calls the notification
\* exactly once, with the record just committed and after the commit has
\* completed; a cycle whose candidate is not a new record never calls it.
NotifyOncePerRecord ==
    /\ pc = "sleep" =>
          notified = IF is_new_record(current_cheapest, all_time_best)
                     THEN <<current_cheapest>> ELSE <<>>
    /\ pc = "notify" => saved = <<current_cheapest>> /\ notified = <<>>
    /\ notified # <<>> =>
          /\ Len(notified) = 1
          /\ saved = notified
          /\ file = RecordFile(notified[1])

\* C3 witness: with no prior record, the found quote was committed and the
\* notification was called once with it
FirstRecordNotifiedOnce ==
    /\ pc = "sleep"
    /\ LoadedPrice = Inf
    /\ saved = <<current_cheapest>>
    /\ notified = <<current_cheapest>>
    /\ file = RecordFile(current_cheapest)

\* C4: when save_best_price raises, no notification is sent in that cycle,
\* and every record a notification was sent for is the one in the file.
NoNotifyWithoutCommit ==
    /\ exc = "save" => pc = "crashed" /\ notified = <<>> /\ saved = <<>>
    /\ \A i \in DOMAIN notified :
          file.kind = "record" /\ json_load(file.data) = notified[i]

\* C4 witness: the write of a new record failed half way
CommitFailedNoMail ==
    /\ pc = "crashed"
    /\ exc = "save"
    /\ file = EmptyFile
    /\ notified = <<>>

\* C5: a failed notification is swallowed: the record committed in that
\* cycle stays in the file, main() is not left by an exception, and the
\* only step that follows is the wait that leads to the next cycle.
NotifyFailureSwallowed ==
    /\ [](mailFailed =>
            /\ pc \in {"sleep", "load"}
            /\ exc = ""
            /\ saved = notified
            /\ file = RecordFile(current_cheapest))
    /\ [][(mailFailed /\ pc = "sleep") => (pc' = "load" /\ file' = file)]_vars

\* C5 witness: the loop reached the next cycle after a failed notification
LoopContinuesAfterMailFailure ==
    /\ mailFailed
    /\ pc = "load"
    /\ file = RecordFile(current_cheapest)

\* C6: loading a corrupt or unreadable ledger file (empty, not JSON, or
\* without a price) yields the "no record yet" state and never raises.
CorruptLedgerIsNoRecord ==
    [][(pc = "load" /\ file.kind \in {"empty", "invalid", "noprice"}) =>
          (pc' = "search" /\ exc' = "" /\ all_time_best'.price = Inf)]_vars

\* C7: whatever the lookups of a cycle produce, discovery does not raise
\* and every departure date of the window is looked up in that cycle.
FullSweepAlways ==
    /\ exc # "search"
    /\ AfterCompare =>
          lookups = [i \in 1..SEARCH_WITHIN_DAYS |-> end_date - SEARCH_WITHIN_DAYS + i]

\* C8: a cycle in which no lookup yielded a quote ends with discovery
\* returning None without raising, no commit, no notification, the file
\* as loaded, and main() waiting for the next interval.
NoQuoteNoCommit ==
    (/\ lookups # <<>>
     /\ quotes = <<>>
     /\ ~(pc = "search" /\ current_date <= end_date))
        => \/ pc = "search" /\ cheapest_flight = None /\ exc = ""
           \/ /\ pc = "sleep"
              /\ current_cheapest = None
              /\ saved = <<>>
              /\ notified = <<>>
              /\ file \in {NoFile, RecordFile(all_time_best)}

\* ------------------------------------------------ properties, claude.py

\* C9: for every pair the primary source is consulted first, the secondary
\* source is consulted if and only if the primary returned None, and when
\* the primary returned None and the secondary a quote, the result of the
\* pair is the secondary's quote.
FallbackOrder ==
    /\ calls # <<>> => calls[1] = "google"
    /\ s_pc = "kayak" => calls = <<"google">> /\ google_result = None
    /\ s_pc = "reduce" =>
          /\ calls = IF google_result = None
                     THEN <<"google", "kayak">> ELSE <<"google">>
          /\ google_result # None => flight_info = google_result
          /\ google_result = None => flight_info = kayak_result

\* C9 witness: the primary returned None and the pair's result is the
\* quote of the secondary
SecondaryQuoteUsed ==
    /\ s_pc = "reduce"
    /\ calls = <<"google", "kayak">>
    /\ google_result = None
    /\ kayak_result # None
    /\ flight_info = kayak_result

\* C10: discovery returns the first quote of least price among the quotes
\* obtained in the sweep, and None exactly when no pair yielded a quote.
DiscoverReturnsFirstMinimum ==
    s_pc = "done" => best_flight = first_min

\* --------------------------------------- properties, dates and scheduling

\* C11: every pair probed in a cycle has its departure date within
\* [today+1, today+searchDays], for a today the clock showed when the
\* window was computed, and its return date after its departure date.
DeparturesInWindow ==
    lookups # <<>> =>
        \E t \in {todays[1], todays[2]} :
            \A i \in DOMAIN lookups :
                /\ t + 1 <= lookups[i]
                /\ lookups[i] <= t + SEARCH_WITHIN_DAYS
                /\ returns[i] > lookups[i]

\* C12 as stated: both dates of every pair lie within the horizon, the
\* end of the search window.
PairsWithinHorizon ==
    \A i \in DOMAIN lookups :
        lookups[i] <= end_date /\ returns[i] <= end_date

\* C12: the departure date of every pair is no later than the end of the
\* search window; the return date is the trip length after the departure
\* date, so at most the trip length past the end of the window.
DeparturesWithinHorizon ==
    \A i \in DOMAIN lookups :
        /\ lookups[i] <= end_date
        /\ returns[i] = lookups[i] + TRIP_DURATION_DAYS
        /\ returns[i] <= end_date + TRIP_DURATION_DAYS

\* C12 witness: the last day of the window was probed, with a return
\* date beyond the window
LastDepartureProbed ==
    /\ lookups # <<>>
    /\ lookups[Len(lookups)] = end_date
    /\ returns[Len(returns)] > end_date

\* C13: no lookup of a cycle is issued without an engine delay since the
\* lookup before it.
PolitenessDelay ==
    [][(lookups # <<>> /\ Len(lookups') > Len(lookups)) => slept]_vars

\* C14: during save_best_price a reader of the ledger file finds the
\* complete previous contents or the complete new record.
AtomicCommit ==
    [][pc = "save" => file' \in {file, RecordFile(current_cheapest)}]_vars

\* C15: a cycle begins only at start-up or after the wait that ends the
\* cycle before it, the wait is entered only from a finished sweep or from
\* the notification, and lookups are issued one at a time in date order.
SingleFlight ==
    [][/\ pc' = "load" => pc \in {"start", "sleep"}
       /\ pc' = "sleep" =>
             \/ pc = "notify"
             \/ pc = "search" /\ ~loop_continues(current_date, end_date)
       /\ Len(lookups') > Len(lookups) =>
             /\ pc = "search"
             /\ loop_continues(current_date, end_date)
             /\ lookups' = Append(lookups, current_date)]_vars

\* C15 witness: a second cycle is in the middle of its sweep
SecondCycleSweeping ==
    /\ pc = "search"
    /\ current_cheapest # None
    /\ Len(lookups) = 2
    /\ loop_continues(current_date, end_date)

\* C16: with config.txt missing, credentials missing or rejected, or an
\* unwritable ledger path, no discovery cycle is ever started.
SetupFailureRefusesLoop ==
    (~env.config \/ ~env.credentials \/ ~env.writable)
        => (pc \in {"import", "start", "exited"}
            \/ (pc = "crashed" /\ exc = "token"))

RecordNeverLost ==
    [][file.kind = "record" =>
          /\ file'.kind = "record"
          /\ (file' # file => LedgerPrice(file') < LedgerPrice(file))]_vars

\* C19: a shutdown request stops the script only between cycles: the
\* sweep of the running cycle is finished and no committed record is left
\* without its notification.
GracefulShutdown ==
    pc = "interrupted" =>
        /\ lookups # <<>> => ~loop_continues(current_date, end_date)
        /\ saved = notified

\* C20: every quote a source returns has a finite price.
FiniteQuotePrices ==
    /\ google_result # None => google_result.price < Inf
    /\ kayak_result # None => kayak_result.price < Inf
    /\ flight_info # None => flight_info.price < Inf

\* C21: the pairs probed in a cycle are, in order and each once, the pairs
\* (today+d, today+d+L) for d = 1..searchDays ascending, for a today the
\* clock showed when the window was computed and the trip length L of the
\* policy: at every moment the pairs probed so far are the first pairs of
\* that sequence, and a sweep that has ended has probed all of them.
ExactDateSpace ==
    lookups # <<>> =>
        \E t \in {todays[1], todays[2]} :
            /\ Len(lookups) <= SEARCH_WITHIN_DAYS
            /\ Len(returns) = Len(lookups)
            /\ \A i \in DOMAIN lookups :
                  /\ lookups[i] = t + i
                  /\ returns[i] = t + i + TRIP_DURATION_DAYS
            /\ ((pc = "search" /\ ~loop_continues(current_date, end_date))
                    \/ AfterCompare)
                  => Len(lookups) = SEARCH_WITHIN_DAYS

\* C22: no lookup waits for ever: every sweep that has started eventually
\* ends, with discovery returning to main() (or, as C7 records, with an
\* exception leaving it), even when the endpoint never answers.
LookupsAreBounded ==
    (pc = "search") ~> (pc \in {"save", "sleep", "crashed"})

\* C23: every iteration that stays in the loop moves current_date on by
\* exactly one day, so the dates looked up are start_date, start_date+1,
\* ... without a gap or a repetition; the loop always ends, and when
\* find_cheapest_flight returns it has looked up each date of
\* [start_date, end_date] once, in end_date - start_date + 1 iterations
\* (none, and None returned, when start_date > end_date).
EveryPathAdvancesOneDay ==
    /\ [](/\ lookups = [i \in 1..Len(lookups) |-> start_date + i - 1]
          /\ pc = "search" => current_date = start_date + Len(lookups)
          /\ pc \in {"save", "sleep"} =>
                /\ Len(lookups) = IF start_date <= end_date
                                  THEN end_date - start_date + 1 ELSE 0
                /\ start_date > end_date => current_cheapest = None)
    /\ [][(pc = "search" /\ pc' = "search") =>
             /\ current_date' = current_date + 1
             /\ lookups' = Append(lookups, current_date)]_vars
    /\ ((pc = "search") ~> (pc # "search"))

\* C23 witness: a call has returned after more than one iteration, some
\* with a quote and some without
SweepReturned ==
    /\ pc \in {"save", "sleep"}
    /\ Len(lookups) = end_date - start_date + 1
    /\ Len(lookups) >= 2
    /\ quotes # <<>>
    /\ Len(quotes) < Len(lookups)

====
